---- MODULE Spec2Model ----
(***************************************************************************)
(* A model of omflib: the OMF record reader (src/src/lib.rs) and the       *)
(* record lookups and renderer (src/src/record.rs).                        *)
(*                                                                         *)
(* A byte is a number in 0..255, a byte stream a sequence of bytes, a Rust *)
(* String the sequence of its UTF-8 bytes.  A usize value that wrapped     *)
(* below zero, w = 2^64 - k, is represented by the negative number -k: it  *)
(* is larger than every length a stream can have.                          *)
(***************************************************************************)
EXTENDS Integers, Sequences, FiniteSets, TLC

\* ------------------------------------------------------------- record tags
TAG_THEADR == 128
TAG_COMENT == 136
TAG_MODEND == 138
TAG_EXTDEF == 140
TAG_PUBDEF == 144
TAG_LNAMES == 150
TAG_SEGDEF == 152
TAG_GRPDEF == 154
TAG_LEDATA == 160

KnownTags ==
  {TAG_THEADR, TAG_COMENT, TAG_MODEND, TAG_EXTDEF, TAG_PUBDEF, TAG_LNAMES,
   TAG_SEGDEF, TAG_GRPDEF, TAG_LEDATA}

\* ------------------------------------------------------- usize arithmetic
\* a - b on usize.  With overflow checks (the dev profile) a result below
\* zero panics; without them (the release profile) it wraps, and the wrapped
\* value 2^64 + (a - b) is represented by the negative number a - b.
usize_sub(a, b, oc) ==
  IF a < 0 \/ a >= b THEN [err |-> "none", v |-> a - b]
  ELSE IF oc THEN [err |-> "overflow", v |-> 0]
  ELSE [err |-> "none", v |-> a - b]

\* c < lim on usize, c a byte count of the stream, lim possibly wrapped.
usize_lt(c, lim) == IF lim < 0 THEN TRUE ELSE c < lim

\* ------------------------------------------------------------ byte cursor
Ok(v, p) == [err |-> "none", v |-> v, pos |-> p]
Fail(e, p) == [err |-> e, v |-> <<>>, pos |-> p]

\* read_exact of one byte: at the end of the stream it fails.
read_u8(s, p) ==
  IF p + 1 <= Len(s) THEN Ok(s[p + 1], p + 1) ELSE Fail("io", Len(s))

\* read_exact of two bytes, little endian.
read_u16(s, p) ==
  IF p + 2 <= Len(s) THEN Ok(s[p + 1] + 256 * s[p + 2], p + 2)
  ELSE Fail("io", Len(s))

\* Vec::resize(len) then read_exact: a wrapped len exceeds isize::MAX and
\* the allocation panics with a capacity overflow before anything is read.
read_bytes(s, p, len) ==
  IF len < 0 THEN Fail("capacity", p)
  ELSE IF p + len <= Len(s) THEN Ok(SubSeq(s, p + 1, p + len), p + len)
  ELSE Fail("io", Len(s))

\* String::from_utf8's validation: the well-formed UTF-8 byte sequences.
IsCont(b) == b \in 128..191

RECURSIVE Utf8Valid(_)
Utf8Valid(b) ==
  IF b = <<>> THEN TRUE
  ELSE LET f == b[1]
           n == Len(b)
       IN IF f < 128 THEN Utf8Valid(Tail(b))
          ELSE IF f \in 194..223
            THEN n >= 2 /\ IsCont(b[2]) /\ Utf8Valid(SubSeq(b, 3, n))
          ELSE IF f \in 224..239
            THEN /\ n >= 3
                 /\ \/ f = 224 /\ b[2] \in 160..191
                    \/ f \in 225..236 /\ b[2] \in 128..191
                    \/ f = 237 /\ b[2] \in 128..159
                    \/ f \in 238..239 /\ b[2] \in 128..191
                 /\ IsCont(b[3])
                 /\ Utf8Valid(SubSeq(b, 4, n))
          ELSE IF f \in 240..244
            THEN /\ n >= 4
                 /\ \/ f = 240 /\ b[2] \in 144..191
                    \/ f \in 241..243 /\ b[2] \in 128..191
                    \/ f = 244 /\ b[2] \in 128..143
                 /\ IsCont(b[3])
                 /\ IsCont(b[4])
                 /\ Utf8Valid(SubSeq(b, 5, n))
          ELSE FALSE

\* One length byte, that many bytes, decoded as UTF-8 text.
read_string(s, p) ==
  LET l == read_u8(s, p) IN
  IF l.err # "none" THEN l
  ELSE LET b == read_bytes(s, l.pos, l.v) IN
       IF b.err # "none" THEN b
       ELSE IF Utf8Valid(b.v) THEN Ok(b.v, b.pos) ELSE Fail("utf", b.pos)

\* ------------------------------------------------------------ module state
OmfInfo_new == [names |-> <<>>, segments |-> <<>>, groups |-> <<>>]

\* Mutant: names already in the table are not appended again.
append_names_interned(inf, names) ==
  [inf EXCEPT !.names =
     inf.names \o SelectSeq(names, LAMBDA n : \A i \in 1..Len(inf.names) :
                                               inf.names[i] # n)]

\* Mutant: the new names are put in front of the table.
append_names_front(inf, names) == [inf EXCEPT !.names = names \o inf.names]

\* self.info.borrow_mut().names.append(&mut names.clone())
append_names(inf, names) == [inf EXCEPT !.names = inf.names \o names]

\* self.info.borrow_mut().segments.push(SegmentInfo {..})
push_segment(inf, seg) == [inf EXCEPT !.segments = Append(inf.segments, seg)]

\* self.info.borrow_mut().groups.push(GroupInfo {..})
push_group(inf, grp) == [inf EXCEPT !.groups = Append(inf.groups, grp)]

\* ------------------------------------------------------------ enumerations
\* FromPrimitive::from_u8 for SegmentAlignment: "None" outside 0..5.
SegmentAlignment_from_u8(n) ==
  CASE n = 0 -> "AbsoluteSegment"
    [] n = 1 -> "RelocatableByteAligned"
    [] n = 2 -> "RelocatableWordAligned"
    [] n = 3 -> "RelocatableParagraphAligned"
    [] n = 4 -> "RelocatablePageAligned"
    [] n = 5 -> "RelocatableDWordAligned"
    [] OTHER -> "None"

\* FromPrimitive::from_u8 for SegmentCombination: "None" outside the members.
SegmentCombination_from_u8(n) ==
  CASE n = 0 -> "Private"
    [] n = 2 -> "Public"
    [] n = 4 -> "Public2"
    [] n = 5 -> "Stack"
    [] n = 6 -> "Common"
    [] n = 7 -> "Public3"
    [] OTHER -> "None"

\* ------------------------------------------------- reading one payload
\* The state of one arm of get_next_record as it reads its payload: err is
\* the error that ended it (or "none"), pos the cursor, v the values of the
\* arm's local variables in the order they were bound, c the loop's byte
\* count, lim its limit, items the entries the loop has pushed.
Arm0(p) ==
  [err |-> "none", pos |-> p, v |-> <<>>, c |-> 0, lim |-> 0, items |-> <<>>]

\* `let x = <read>?;`: the read's value is bound, or its error ends the arm.
Bind(a, r) ==
  IF a.err # "none" THEN a
  ELSE IF r.err # "none" THEN [a EXCEPT !.err = r.err, !.pos = r.pos]
  ELSE [a EXCEPT !.pos = r.pos, !.v = Append(@, r.v)]

get_u8(s, a) == Bind(a, read_u8(s, a.pos))
get_u16(s, a) == Bind(a, read_u16(s, a.pos))
get_string(s, a) == Bind(a, read_string(s, a.pos))

\* self.read_bytes(record_length - k): the subtraction, then the read
get_bytes(s, a, len, k, oc) ==
  IF a.err # "none" THEN a
  ELSE IF usize_sub(len, k, oc).err # "none"
       THEN [a EXCEPT !.err = usize_sub(len, k, oc).err]
       ELSE Bind(a, read_bytes(s, a.pos, usize_sub(len, k, oc).v))

\* the limit of a loop `while c < record_length - k`
LoopLimit(a, len, k, oc) ==
  IF a.err # "none" THEN a
  ELSE IF usize_sub(len, k, oc).err # "none"
       THEN [a EXCEPT !.err = usize_sub(len, k, oc).err]
       ELSE [a EXCEPT !.lim = usize_sub(len, k, oc).v, !.c = 0]

Last(q) == q[Len(q)]
ButLast(q, k) == SubSeq(q, 1, Len(q) - k)

\* An arm's result: the error (or "none"), the cursor, the payload and the
\* module state as the arm leaves it.
NoData == [kind |-> "None"]
ArmOk(d, p, inf) == [err |-> "none", pos |-> p, data |-> d, info |-> inf]
ArmFail(e, p, inf) == [err |-> e, pos |-> p, data |-> NoData, info |-> inf]

\* --------------------------------------------------- per-tag payload arms
\* 0x80 Translator Header
THeadrData(a, inf) ==
  IF a.err # "none" THEN ArmFail(a.err, a.pos, inf)
  ELSE ArmOk([kind |-> "THeadr", name |-> a.v[1]], a.pos, inf)

THeadrArm(len, s, p, inf, oc) == THeadrData(get_string(s, Arm0(p)), inf)

\* 0x88 Comment
ComentData(a, inf) ==
  IF a.err # "none" THEN ArmFail(a.err, a.pos, inf)
  ELSE ArmOk([kind |-> "Coment",
              comment_type |-> [no_purge |-> (a.v[1] \div 128) % 2 = 1,
                                no_list |-> (a.v[1] \div 128) % 2 = 1],
              comment_class |-> a.v[2],
              comment_bytes |-> a.v[3]], a.pos, inf)

ComentArm(len, s, p, inf, oc) ==
  ComentData(get_bytes(s, get_u8(s, get_u8(s, Arm0(p))), len, 3, oc), inf)

\* 0x8A Module End
ModEndStart(s, a) ==
  IF a.err # "none" THEN a
  ELSE IF (a.v[1] \div 64) % 2 = 1
       THEN get_u16(s, get_u8(s, get_u8(s, get_u8(s, a))))
       ELSE a

ModEndData(a, inf) ==
  IF a.err # "none" THEN ArmFail(a.err, a.pos, inf)
  ELSE ArmOk([kind |-> "ModEnd",
              main |-> (a.v[1] \div 128) % 2 = 1,
              start |-> IF Len(a.v) = 1 THEN [kind |-> "NoStart"]
                        ELSE [kind |-> "Start", end_data |-> a.v[2],
                              frame_datum |-> a.v[3], target_datum |-> a.v[4],
                              target_displacement |-> a.v[5]]],
             a.pos, inf)

ModEndArm(len, s, p, inf, oc) ==
  ModEndData(ModEndStart(s, get_u8(s, Arm0(p))), inf)

\* 0x8C External Names Def
\* c += name.len() + 2; names.push(ExtName { name, type_index })
ExtDefPush(a) ==
  IF a.err # "none" THEN a
  ELSE [a EXCEPT !.c = @ + Len(a.v[Len(a.v) - 1]) + 2,
                 !.items = Append(@, [name |-> a.v[Len(a.v) - 1],
                                      type_index |-> Last(a.v)]),
                 !.v = ButLast(@, 2)]

RECURSIVE ExtDefLoop(_, _)
ExtDefLoop(s, a) ==
  IF a.err # "none" \/ ~usize_lt(a.c, a.lim) THEN a
  ELSE ExtDefLoop(s, ExtDefPush(get_u8(s, get_string(s, a))))

ExtDefData(a, inf) ==
  IF a.err # "none" THEN ArmFail(a.err, a.pos, inf)
  ELSE ArmOk([kind |-> "ExtDef", names |-> a.items], a.pos, inf)

ExtDefArm(len, s, p, inf, oc) ==
  ExtDefData(ExtDefLoop(s, LoopLimit(Arm0(p), len, 1, oc)), inf)

\* 0x90 Public Names Def
\* base_frame is read when base_segment_index is 0, and is 0 otherwise.
PubDefFrame(s, a) ==
  IF a.err # "none" THEN a
  ELSE IF a.v[2] = 0 THEN get_u16(s, a) ELSE Bind(a, Ok(0, a.pos))

\* rep_len = record_length - 3 - if base_segment_index == 0 { 2 } else { 0 }
PubDefLimit(a, len, oc) ==
  IF a.err # "none" THEN a
  ELSE IF usize_sub(len, 3, oc).err # "none"
       THEN [a EXCEPT !.err = usize_sub(len, 3, oc).err]
       ELSE IF usize_sub(usize_sub(len, 3, oc).v,
                         IF a.v[2] = 0 THEN 2 ELSE 0, oc).err # "none"
            THEN [a EXCEPT !.err = "overflow"]
            ELSE [a EXCEPT !.lim = usize_sub(usize_sub(len, 3, oc).v,
                                             IF a.v[2] = 0 THEN 2 ELSE 0,
                                             oc).v,
                           !.c = 0]

\* c += name.len() + 4; names.push(PubName { .. })
PubDefPush(a) ==
  IF a.err # "none" THEN a
  ELSE [a EXCEPT !.c = @ + Len(a.v[Len(a.v) - 2]) + 4,
                 !.items = Append(@, [name |-> a.v[Len(a.v) - 2],
                                      public_offset |-> a.v[Len(a.v) - 1],
                                      type_index |-> Last(a.v)]),
                 !.v = ButLast(@, 3)]

RECURSIVE PubDefLoop(_, _)
PubDefLoop(s, a) ==
  IF a.err # "none" \/ ~usize_lt(a.c, a.lim) THEN a
  ELSE PubDefLoop(s, PubDefPush(get_u8(s, get_u16(s, get_string(s, a)))))

PubDefData(a, inf) ==
  IF a.err # "none" THEN ArmFail(a.err, a.pos, inf)
  ELSE ArmOk([kind |-> "PubDef", base_group_index |-> a.v[1],
              base_segment_index |-> a.v[2], base_frame |-> a.v[3],
              names |-> a.items], a.pos, inf)

PubDefArm(len, s, p, inf, oc) ==
  PubDefData(
    PubDefLoop(s, PubDefLimit(PubDefFrame(s, get_u8(s, get_u8(s, Arm0(p)))),
                              len, oc)),
    inf)

\* 0x96 List of Names
\* c += name.len() + 1; names.push(name)
LNamesPush(a) ==
  IF a.err # "none" THEN a
  ELSE [a EXCEPT !.c = @ + Len(Last(a.v)) + 1,
                 !.items = Append(@, Last(a.v)),
                 !.v = ButLast(@, 1)]

RECURSIVE LNamesLoop(_, _)
LNamesLoop(s, a) ==
  IF a.err # "none" \/ ~usize_lt(a.c, a.lim) THEN a
  ELSE LNamesLoop(s, LNamesPush(get_string(s, a)))

\* Mutant: append(&mut names) without the clone drains the record's names.
LNamesData_drained(a, inf) ==
  IF a.err # "none" THEN ArmFail(a.err, a.pos, inf)
  ELSE ArmOk([kind |-> "LNames", names |-> <<>>], a.pos,
             append_names(inf, a.items))

\* The names are appended to the module state once the loop is over, before
\* the checksum is read.
LNamesData(a, inf) ==
  IF a.err # "none" THEN ArmFail(a.err, a.pos, inf)
  ELSE ArmOk([kind |-> "LNames", names |-> a.items], a.pos,
             append_names(inf, a.items))

LNamesArm(len, s, p, inf, oc) ==
  LNamesData(LNamesLoop(s, LoopLimit(Arm0(p), len, 1, oc)), inf)

\* 0x98 Segment Def
\* alignment = from_u8(tmp >> 5); combination = from_u8((tmp >> 2) & 3)
alignment_of(tmp) == SegmentAlignment_from_u8(tmp \div 32)
\* a variant that takes the combination from a 3-bit field
combination_of_three_bits(tmp) == SegmentCombination_from_u8((tmp \div 4) % 8)

combination_of(tmp) == SegmentCombination_from_u8((tmp \div 4) % 4)

\* .ok_or(OmfError::Value("alignment"))?, .ok_or(OmfError::Value("combination"))?
SegDefAttr(a) ==
  IF a.err # "none" THEN a
  ELSE IF alignment_of(a.v[1]) = "None" THEN [a EXCEPT !.err = "value"]
  ELSE IF combination_of(a.v[1]) = "None" THEN [a EXCEPT !.err = "value"]
  ELSE a

\* frame_number and offset are read for an absolute segment only.
SegDefAbsolute(s, a) ==
  IF a.err # "none" THEN a
  ELSE IF alignment_of(a.v[1]) = "AbsoluteSegment"
       THEN get_u8(s, get_u16(s, a))
       ELSE Bind(Bind(a, Ok(0, a.pos)), Ok(0, a.pos))

SegmentAttributes(a) ==
  [alignment |-> alignment_of(a.v[1]),
   combination |-> combination_of(a.v[1]),
   big |-> (a.v[1] \div 2) % 2 = 1,
   bd32bit |-> a.v[1] % 2 = 1,
   absolute_segment_address |->
     [some |-> alignment_of(a.v[1]) = "AbsoluteSegment",
      frame_number |-> a.v[2], offset |-> a.v[3]]]

SegmentInfo(a) ==
  [segment_attributes |-> SegmentAttributes(a),
   segment_length |-> a.v[4],
   segment_name_index |-> a.v[5],
   class_name_index |-> a.v[6],
   overlay_name_index |-> a.v[7]]

\* The segment is pushed to the module state before the checksum is read.
SegDefData(a, inf) ==
  IF a.err # "none" THEN ArmFail(a.err, a.pos, inf)
  ELSE ArmOk([kind |-> "SegDef",
              segment_attributes |-> SegmentAttributes(a),
              segment_length |-> a.v[4],
              segment_name_index |-> a.v[5],
              class_name_index |-> a.v[6],
              overlay_name_index |-> a.v[7]], a.pos,
             push_segment(inf, SegmentInfo(a)))

\* a variant that validates the attribute byte after the other fields
SegDefArm_late_check(len, s, p, inf, oc) ==
  SegDefData(
    SegDefAttr(get_u8(s, get_u8(s, get_u8(s, get_u16(s,
      SegDefAbsolute(s, get_u8(s, Arm0(p)))))))),
    inf)

SegDefArm(len, s, p, inf, oc) ==
  SegDefData(
    get_u8(s, get_u8(s, get_u8(s, get_u16(s,
      SegDefAbsolute(s, SegDefAttr(get_u8(s, Arm0(p)))))))),
    inf)

\* 0x9A Group Def
\* c += 2; segment_definitions.push(GroupComponent { .. })
GrpDefPush(a) ==
  IF a.err # "none" THEN a
  ELSE [a EXCEPT !.c = @ + 2,
                 !.items = Append(@, [index |-> a.v[Len(a.v) - 1],
                                      segment_definition |-> Last(a.v)]),
                 !.v = ButLast(@, 2)]

RECURSIVE GrpDefLoop(_, _)
GrpDefLoop(s, a) ==
  IF a.err # "none" \/ ~usize_lt(a.c, a.lim) THEN a
  ELSE GrpDefLoop(s, GrpDefPush(get_u8(s, get_u8(s, a))))

\* The group is pushed to the module state before the checksum is read.
GrpDefData(a, inf) ==
  IF a.err # "none" THEN ArmFail(a.err, a.pos, inf)
  ELSE ArmOk([kind |-> "GrpDef", group_name_index |-> a.v[1],
              segment_definitions |-> a.items], a.pos,
             push_group(inf, [group_name_index |-> a.v[1],
                              segment_definitions |-> a.items]))

GrpDefArm(len, s, p, inf, oc) ==
  GrpDefData(GrpDefLoop(s, LoopLimit(get_u8(s, Arm0(p)), len, 2, oc)), inf)

\* 0xA0 Logical Enumerated Data
LEDataData(a, inf) ==
  IF a.err # "none" THEN ArmFail(a.err, a.pos, inf)
  ELSE ArmOk([kind |-> "LEData", segment_index |-> a.v[1],
              enumerated_data_offset |-> a.v[2], data |-> a.v[3]],
             a.pos, inf)

LEDataArm(len, s, p, inf, oc) ==
  LEDataData(get_bytes(s, get_u16(s, get_u8(s, Arm0(p))), len, 4, oc), inf)

\* any other tag: an opaque payload of record_length - 1 bytes
UnknownData(a, inf) ==
  IF a.err # "none" THEN ArmFail(a.err, a.pos, inf)
  ELSE ArmOk([kind |-> "Unknown", data |-> a.v[1]], a.pos, inf)

\* Mutant: the payload is read as record_length bytes.
UnknownArm_whole_length(len, s, p, inf, oc) ==
  UnknownData(get_bytes(s, Arm0(p), len, 0, oc), inf)

UnknownArm(len, s, p, inf, oc) ==
  UnknownData(get_bytes(s, Arm0(p), len, 1, oc), inf)

\* match record_type { ... }
DecodeData(tag, len, s, p, inf, oc) ==
  CASE tag = TAG_THEADR -> THeadrArm(len, s, p, inf, oc)
    [] tag = TAG_COMENT -> ComentArm(len, s, p, inf, oc)
    [] tag = TAG_MODEND -> ModEndArm(len, s, p, inf, oc)
    [] tag = TAG_EXTDEF -> ExtDefArm(len, s, p, inf, oc)
    [] tag = TAG_PUBDEF -> PubDefArm(len, s, p, inf, oc)
    [] tag = TAG_LNAMES -> LNamesArm(len, s, p, inf, oc)
    [] tag = TAG_SEGDEF -> SegDefArm(len, s, p, inf, oc)
    [] tag = TAG_GRPDEF -> GrpDefArm(len, s, p, inf, oc)
    [] tag = TAG_LEDATA -> LEDataArm(len, s, p, inf, oc)
    [] OTHER -> UnknownArm(len, s, p, inf, oc)

\* ---------------------------------------------------------- get_next_record
\* res is "None" (Ok(None)), "Some" (Ok(Some(rec))), "Err" (Err(err)) or
\* "Panic" (an arithmetic overflow or a capacity overflow inside the call).
NoRecord ==
  [record_type |-> 0, record_length |-> 0, data |-> NoData, checksum |-> 0]

Outcome(res, err, p, rec, inf) ==
  [res |-> res, err |-> err, pos |-> p, rec |-> rec, info |-> inf]

\* A failed read of the tag byte ends the sequence.
TagError(t, inf) == Outcome("None", "none", t.pos, NoRecord, inf)

\* Mutant: a failed read of the length field ends the sequence quietly.
LengthError_quiet(l, inf) == Outcome("None", "none", l.pos, NoRecord, inf)

\* A failed read of the length field is an error.
LengthError(l, inf) == Outcome("Err", l.err, l.pos, NoRecord, inf)

\* An error of the payload arm: `?` returns it, a panic unwinds.
ArmError(d) ==
  Outcome(IF d.err \in {"overflow", "capacity"} THEN "Panic" ELSE "Err",
          d.err, d.pos, NoRecord, d.info)

\* A failed read of the checksum byte is an error; the arm's appends stay.
ChecksumError(c, d) == Outcome("Err", c.err, c.pos, NoRecord, d.info)

\* let checksum = self.read_u8()?; Ok(Some(OmfRecord::new(..)))
ReadChecksum(tag, len, d, c) ==
  IF d.err # "none" THEN ArmError(d)
  ELSE IF c.err # "none" THEN ChecksumError(c, d)
  ELSE Outcome("Some", "none", c.pos,
               [record_type |-> tag, record_length |-> len,
                data |-> d.data, checksum |-> c.v], d.info)

FinishRecord(tag, len, s, d) == ReadChecksum(tag, len, d, read_u8(s, d.pos))

get_next_record(s, p, inf, oc) ==
  IF read_u8(s, p).err # "none" THEN TagError(read_u8(s, p), inf)
  ELSE IF read_u16(s, p + 1).err # "none"
       THEN LengthError(read_u16(s, p + 1), inf)
       ELSE FinishRecord(read_u8(s, p).v, read_u16(s, p + 1).v, s,
                         DecodeData(read_u8(s, p).v, read_u16(s, p + 1).v,
                                    s, p + 3, inf, oc))

\* -------------------------------------------------------- record lookups
\* A lookup's value is carried as a module state holding the one entry found.
NoVal == OmfInfo_new
LookupOk(val) == [res |-> "Ok", err |-> "none", val |-> val]
LookupErr == [res |-> "Err", err |-> "value", val |-> NoVal]
LookupPanic == [res |-> "Panic", err |-> "overflow", val |-> NoVal]

\* Mutant: the index is used as a position, without the - 1.
index_pos_zero_based(index, oc) == [err |-> "none", v |-> index]

\* (index as usize) - 1: the position the lookup reads.
index_pos(index, oc) == usize_sub(index, 1, oc)

\* Vec::get(i): a wrapped i is past the end of every vector.
InRange(i, v) == i >= 0 /\ i < Len(v)

name_from_index(inf, index, oc) ==
  LET i == index_pos(index, oc) IN
  IF i.err # "none" THEN LookupPanic
  ELSE IF InRange(i.v, inf.names)
       THEN LookupOk([NoVal EXCEPT !.names = <<inf.names[i.v + 1]>>])
       ELSE LookupErr

get_segment(inf, index, oc) ==
  LET i == index_pos(index, oc) IN
  IF i.err # "none" THEN LookupPanic
  ELSE IF InRange(i.v, inf.segments)
       THEN LookupOk([NoVal EXCEPT !.segments = <<inf.segments[i.v + 1]>>])
       ELSE LookupErr

get_group(inf, index, oc) ==
  LET i == index_pos(index, oc) IN
  IF i.err # "none" THEN LookupPanic
  ELSE IF InRange(i.v, inf.groups)
       THEN LookupOk([NoVal EXCEPT !.groups = <<inf.groups[i.v + 1]>>])
       ELSE LookupErr

Lookup(fn, inf, index, oc) ==
  CASE fn = "name" -> name_from_index(inf, index, oc)
    [] fn = "segment" -> get_segment(inf, index, oc)
    [] fn = "group" -> get_group(inf, index, oc)

\* ----------------------------------------------------------------- renderer
\* The text written so far is a sequence of lines; a line keeps the values
\* it is formatted from: its label, a string or byte block, two numbers.
\* calls lists the lookups made so far, in order.  A lookup that fails makes
\* its `expect` panic: ok turns FALSE and nothing more is written.
TextLine(t, s, n, m) == [t |-> t, s |-> s, n |-> n, m |-> m, e |-> <<>>]

\* Display for SegmentAlignment
SegmentAlignment_fmt(a) ==
  CASE a = "AbsoluteSegment" -> "absolute segment"
    [] a = "RelocatableByteAligned" -> "relocatable, byte aligned"
    [] a = "RelocatableWordAligned" -> "relocatable, word aligned"
    [] a = "RelocatableParagraphAligned" -> "relocatable, paragraph aligned"
    [] a = "RelocatablePageAligned" -> "relocatable, page aligned"
    [] a = "RelocatableDWordAligned" -> "relocatable, double word aligned"

\* Display for SegmentCombination
SegmentCombination_fmt(c) ==
  CASE c = "Private" -> "private"
    [] c = "Public" -> "public"
    [] c = "Public2" -> "public"
    [] c = "Stack" -> "stack"
    [] c = "Common" -> "common"
    [] c = "Public3" -> "public"
Ctx0 == [ok |-> TRUE, lines |-> <<>>, calls |-> <<>>, val |-> NoVal]

Write(ctx, line) ==
  IF ctx.ok THEN [ctx EXCEPT !.lines = Append(@, line)] ELSE ctx

Call(ctx, fn, index, inf, oc) ==
  IF ~ctx.ok THEN ctx
  ELSE LET r == Lookup(fn, inf, index, oc) IN
       [ok |-> r.res = "Ok",
        lines |-> ctx.lines,
        calls |-> Append(ctx.calls, [fn |-> fn, index |-> index, res |-> r.res]),
        val |-> r.val]

\* writeln of a line whose text is self.name_from_index(index).expect(..)
WriteName(ctx, t, index, m, inf, oc) ==
  LET c == Call(ctx, "name", index, inf, oc) IN
  IF c.ok THEN Write(c, TextLine(t, c.val.names[1], index, m)) ELSE c

\* self.get_segment(index).expect(..), then a line naming the segment
WriteSegment(ctx, t, index, m, inf, oc) ==
  LET c == Call(ctx, "segment", index, inf, oc) IN
  IF c.ok
  THEN LET n == Call(c, "name", c.val.segments[1].segment_name_index, inf, oc) IN
       IF n.ok THEN Write(n, TextLine(t, n.val.names[1], index, m)) ELSE n
  ELSE c

\* self.get_group(index).expect(..), then a line naming the group
WriteGroup(ctx, t, index, inf, oc) ==
  LET c == Call(ctx, "group", index, inf, oc) IN
  IF c.ok
  THEN LET n == Call(c, "name", c.val.groups[1].group_name_index, inf, oc) IN
       IF n.ok THEN Write(n, TextLine(t, n.val.names[1], index, 0)) ELSE n
  ELSE c

RECURSIVE WriteExtNames(_, _, _)
WriteExtNames(ctx, names, i) ==
  IF i > Len(names) THEN ctx
  ELSE WriteExtNames(
         Write(ctx, TextLine("ext", names[i].name, i - 1, names[i].type_index)),
         names, i + 1)

RECURSIVE WritePubNames(_, _, _)
WritePubNames(ctx, names, i) ==
  IF i > Len(names) THEN ctx
  ELSE WritePubNames(
         Write(ctx, TextLine("pub", names[i].name, names[i].public_offset,
                             names[i].type_index)),
         names, i + 1)

RECURSIVE WriteLNames(_, _, _)
WriteLNames(ctx, names, i) ==
  IF i > Len(names) THEN ctx
  ELSE WriteLNames(Write(ctx, TextLine("lname", names[i], i, 0)), names, i + 1)

RECURSIVE WriteGroupSegments(_, _, _, _, _)
WriteGroupSegments(ctx, defs, i, inf, oc) ==
  IF i > Len(defs) \/ ~ctx.ok THEN ctx
  ELSE WriteGroupSegments(
         WriteSegment(ctx, "        segment", defs[i].segment_definition,
                      i - 1, inf, oc),
         defs, i + 1, inf, oc)

RenderTHeadr(ctx, d, inf, oc) ==
  Write(Write(ctx, TextLine("Translator Header:", <<>>, 0, 0)),
        TextLine("    Name", d.name, 0, 0))

RenderComent(ctx, d, inf, oc) ==
  Write(Write(ctx, TextLine("Comment", <<>>,
                            IF d.comment_type.no_purge THEN 1 ELSE 0,
                            IF d.comment_type.no_list THEN 1 ELSE 0)),
        TextLine("hex", d.comment_bytes, d.comment_class, 0))

RenderModEnd(ctx, d, inf, oc) ==
  LET c == Write(ctx, TextLine("Module End", <<>>, IF d.main THEN 1 ELSE 0, 0))
  IN IF d.start.kind = "Start"
     THEN Write(c, TextLine("    End data",
                            <<d.start.end_data, d.start.frame_datum,
                              d.start.target_datum>>,
                            d.start.target_displacement, 0))
     ELSE c

RenderExtDef(ctx, d, inf, oc) ==
  WriteExtNames(Write(ctx, TextLine("External Names Definition", <<>>, 0, 0)),
                d.names, 1)

RenderPubDef(ctx, d, inf, oc) ==
  LET c0 == Write(ctx, TextLine("Public Names Definition", <<>>, 0, 0))
      c1 == IF d.base_group_index = 0 /\ d.base_segment_index = 0
            THEN Write(c0, TextLine("    Base Frame", <<>>, d.base_frame, 0))
            ELSE LET g == IF d.base_group_index = 0
                          THEN Write(c0, TextLine("    Base Group: None",
                                                  <<>>, 0, 0))
                          ELSE WriteGroup(c0, "    Base Group",
                                          d.base_group_index, inf, oc)
                 IN WriteSegment(g, "    Base Segment", d.base_segment_index,
                                 0, inf, oc)
  IN WritePubNames(Write(c1, TextLine("    Names:", <<>>, 0, 0)), d.names, 1)

RenderLNames(ctx, d, inf, oc) ==
  WriteLNames(Write(ctx, TextLine("List of Names", <<>>, 0, 0)), d.names, 1)

RenderSegDef(ctx, d, inf, oc) ==
  LET c1 == WriteName(ctx, "Segment Definition", d.segment_name_index, 0,
                      inf, oc)
      c2 == Write(c1, [TextLine("    Attributes", <<>>,
                                IF d.segment_attributes.big THEN 1 ELSE 0,
                                IF d.segment_attributes.bd32bit THEN 1 ELSE 0)
                       EXCEPT !.e =
                         <<SegmentAlignment_fmt(d.segment_attributes.alignment),
                           SegmentCombination_fmt(
                             d.segment_attributes.combination)>>])
      c4 == Write(c2, TextLine("    Segment length", <<>>, d.segment_length, 0))
      c5 == WriteName(c4, "    Class name", d.class_name_index, 0, inf, oc)
  IN WriteName(c5, "    Overlay name", d.overlay_name_index, 0, inf, oc)

RenderGrpDef(ctx, d, inf, oc) ==
  LET c1 == WriteName(ctx, "Group Definition", d.group_name_index, 0, inf, oc)
      c2 == Write(c1, TextLine("    Segments:", <<>>, 0, 0))
  IN WriteGroupSegments(c2, d.segment_definitions, 1, inf, oc)

RenderLEData(ctx, d, inf, oc) ==
  LET c1 == WriteSegment(ctx, "Logical Enumerated Data", d.segment_index,
                         d.enumerated_data_offset, inf, oc)
  IN Write(c1, TextLine("hex", d.data, 0, 0))

RenderUnknown(ctx, d, inf, oc) ==
  Write(Write(ctx, TextLine("Unknown Data", <<>>, 0, 0)),
        TextLine("hex", d.data, 0, 0))

\* Display::fmt of a record, against the module state it shares
fmt(rec, inf, oc) ==
  LET c == Write(Ctx0, TextLine("Record type", <<>>, rec.record_type,
                                rec.record_length))
      d == rec.data
  IN CASE d.kind = "THeadr" -> RenderTHeadr(c, d, inf, oc)
       [] d.kind = "Coment" -> RenderComent(c, d, inf, oc)
       [] d.kind = "ModEnd" -> RenderModEnd(c, d, inf, oc)
       [] d.kind = "ExtDef" -> RenderExtDef(c, d, inf, oc)
       [] d.kind = "PubDef" -> RenderPubDef(c, d, inf, oc)
       [] d.kind = "LNames" -> RenderLNames(c, d, inf, oc)
       [] d.kind = "SegDef" -> RenderSegDef(c, d, inf, oc)
       [] d.kind = "GrpDef" -> RenderGrpDef(c, d, inf, oc)
       [] d.kind = "LEData" -> RenderLEData(c, d, inf, oc)
       [] d.kind = "Unknown" -> RenderUnknown(c, d, inf, oc)

\* ------------------------------------------------------------ input streams
\* The byte streams a run may be given.  A stream is up to MaxPrefix records
\* of PrefixRecords, one after the other, followed by nothing or by one of
\* TailRecords; or fewer than MaxPrefix records of PrefixRecords followed by
\* the first bytes (any number of them: the stream may end anywhere) of one
\* of TailRecords.
MaxPrefix == 2
MaxIndex == 2

CODE == <<67, 79, 68, 69>>
DATA == <<68, 65, 84, 65>>

\* records after which decoding goes on
PrefixRecords ==
  { <<150, 11, 0, 4>> \o CODE \o <<4>> \o DATA \o <<0>>,  \* LNames CODE, DATA
    <<152, 7, 0, 40, 16, 0, 1, 2, 1, 0>>,        \* SegDef, names 1, 2, 1
    <<154, 2, 0, 1, 0>>,                         \* GrpDef, name 1, no segment
    <<128, 9, 0, 1, 84, 0>> }                    \* THeadr "T", length 9

TailRecords ==
  PrefixRecords \cup
  { <<150, 3, 0, 1, 65, 0>>,                     \* LNames "A"
    <<156, 3, 0, 170, 187, 0>>,                  \* unknown tag 9C, length 3
    <<128, 3, 0, 1, 84, 0>>,                     \* THeadr "T", length 3
    <<128, 3, 0, 1, 255, 0>>,                    \* THeadr, not UTF-8
    <<136, 4, 0, 128, 0, 65, 0>>,                \* Coment, one byte
    <<136, 2, 0, 0, 0, 0>>,                      \* Coment, length 2
    <<138, 2, 0, 128, 0>>,                       \* ModEnd, main, no start
    <<138, 2, 0, 64, 1, 2, 3, 4, 5, 0>>,         \* ModEnd, start, length 2
    <<140, 4, 0, 1, 65, 0, 0>>,                  \* ExtDef "A"
    <<140, 3, 0, 1, 65, 0, 0>>,                  \* ExtDef "A", length 3
    <<140, 0, 0, 0>>,                            \* ExtDef, length 0
    <<144, 5, 0, 0, 0, 52, 18, 0>>,              \* PubDef 0, 0, frame 1234h
    <<144, 5, 0, 1, 0, 0, 0, 0>>,                \* PubDef group 1, segment 0
    <<144, 8, 0, 0, 1, 1, 65, 0, 0, 0, 0>>,      \* PubDef segment 1, "A"
    <<144, 3, 0, 1, 1, 0>>,                      \* PubDef group 1, segment 1
    <<144, 4, 0, 1, 0, 0, 0, 0>>,                \* PubDef, length 4
    <<144, 2, 0, 1, 1, 0>>,                      \* PubDef, length 2
    <<150, 1, 0, 0>>,                            \* LNames, no name
    <<150, 3, 0, 1, 255, 0>>,                    \* LNames, not UTF-8
    <<150, 4, 0, 2, 195, 169, 0>>,               \* LNames, a two-byte character
    <<150, 2, 0, 1, 65, 0>>,                     \* LNames "A", length 2
    <<150, 0, 0, 0>>,                            \* LNames, length 0
    <<152, 10, 0, 0, 52, 18, 7, 16, 0, 1, 1, 1, 0>>,  \* SegDef, absolute
    <<152, 7, 0, 224, 16, 0, 1, 1, 1, 0>>,       \* SegDef, alignment 7
    <<152, 7, 0, 36, 16, 0, 1, 1, 1, 0>>,        \* SegDef, combination 1
    <<152, 7, 0, 40, 16, 0, 0, 1, 1, 0>>,        \* SegDef, segment name 0
    <<154, 4, 0, 1, 255, 1, 0>>,                 \* GrpDef, name 1, segment 1
    <<154, 3, 0, 1, 255, 1, 0>>,                 \* GrpDef, length 3
    <<154, 1, 0, 1, 0>>,                         \* GrpDef, length 1
    <<160, 5, 0, 1, 0, 0, 170, 0>>,              \* LEData, one byte
    <<160, 3, 0, 1, 0, 0, 0>>,                   \* LEData, length 3
    <<156, 1, 0, 0>>,                            \* unknown tag 9C, length 1
    <<156, 0, 0, 0>>,                            \* unknown tag 9C, length 0
    <<1, 2, 0, 65, 0>>,                          \* unknown tag 01, length 2
    <<156, 255, 255, 0>> }                       \* unknown tag 9C, length FFFFh

RECURSIVE Prefixes(_)
Prefixes(n) ==
  IF n = 0 THEN {<<>>}
  ELSE LET shorter == Prefixes(n - 1) IN
       shorter \cup {a \o b : a \in shorter, b \in PrefixRecords}

Tails == UNION {{SubSeq(r, 1, k) : k \in 0..Len(r)} : r \in TailRecords}

Streams ==
  {a \o b : a \in Prefixes(MaxPrefix), b \in TailRecords \cup {<<>>}}
  \cup {a \o b : a \in Prefixes(MaxPrefix - 1), b \in Tails}

\* a Segment Def record with the given attribute byte, names 1, 2, 1; its
\* length counts the frame number and offset of an absolute segment
SegDefWithAttr(attr) ==
  IF attr \div 32 = 0
  THEN <<152, 10, 0, attr, 52, 18, 7, 16, 0, 1, 2, 1, 0>>
  ELSE <<152, 7, 0, attr, 16, 0, 1, 2, 1, 0>>

\* every attribute byte, first in the stream or after a List of Names
AttrStreams ==
  {a \o SegDefWithAttr(attr) :
     a \in {<<>>, <<150, 11, 0, 4>> \o CODE \o <<4>> \o DATA \o <<0>>},
     attr \in 0..255}

\* ------------------------------------------------------------------- state
VARIABLES
  stream,           \* the bytes behind the reader's `r`
  pos,              \* how many of them have been read
  info,             \* the OmfInfo shared by the reader and every record
  records,          \* the records yielded so far, held by the caller
  status,           \* "running", or "panicked" once a call has panicked
  overflow_checks,  \* the build profile: are overflow checks compiled in
  last              \* the last call made and what it returned

vars == <<stream, pos, info, records, status, overflow_checks, last>>

NoCall ==
  [op |-> "init", res |-> "none", err |-> "none", start |-> 0, rec |-> 0,
   index |-> 0, val |-> NoVal, lines |-> <<>>, calls |-> <<>>]

Init ==
  /\ stream \in Streams
  /\ pos = 0
  /\ info = OmfInfo_new
  /\ records = <<>>
  /\ status = "running"
  /\ overflow_checks \in BOOLEAN
  /\ last = NoCall

\* Iterator::next: get_next_record().expect("next")
Yield(r) ==
  /\ pos' = r.pos
  /\ info' = r.info
  /\ records' = IF r.res = "Some" THEN Append(records, r.rec) ELSE records
  /\ status' = IF r.res \in {"Err", "Panic"} THEN "panicked" ELSE "running"
  /\ last' = [NoCall EXCEPT !.op = "next",
                            !.res = IF r.res = "Err" THEN "Panic" ELSE r.res,
                            !.err = r.err,
                            !.start = pos]

NextRecord ==
  /\ status = "running"
  /\ Yield(get_next_record(stream, pos, info, overflow_checks))
  /\ UNCHANGED <<stream, overflow_checks>>

\* name_from_index, get_segment or get_group, called on a yielded record
Returned(fn, index, r) ==
  /\ status' = IF r.res = "Panic" THEN "panicked" ELSE "running"
  /\ last' = [NoCall EXCEPT !.op = fn, !.res = r.res, !.err = r.err,
                            !.index = index, !.val = r.val]

LookupCall(fn, index) ==
  /\ status = "running"
  /\ records # <<>>
  /\ Returned(fn, index, Lookup(fn, info, index, overflow_checks))
  /\ UNCHANGED <<stream, pos, info, records, overflow_checks>>

\* Display::fmt of the j-th yielded record (println!("{}", section))
Written(j, c) ==
  /\ status' = IF c.ok THEN "running" ELSE "panicked"
  /\ last' = [NoCall EXCEPT !.op = "render",
                            !.res = IF c.ok THEN "Ok" ELSE "Panic",
                            !.rec = j,
                            !.lines = c.lines,
                            !.calls = c.calls]

Render(j) ==
  /\ status = "running"
  /\ j \in 1..Len(records)
  /\ Written(j, fmt(records[j], info, overflow_checks))
  /\ UNCHANGED <<stream, pos, info, records, overflow_checks>>

NameFromIndex == \E index \in 0..MaxIndex : LookupCall("name", index)
GetSegment == \E index \in 0..MaxIndex : LookupCall("segment", index)
GetGroup == \E index \in 0..MaxIndex : LookupCall("group", index)
RenderRecord == \E j \in 1..Len(records) : Render(j)

Next ==
  \/ NextRecord
  \/ NameFromIndex
  \/ GetSegment
  \/ GetGroup
  \/ RenderRecord

Spec == Init /\ [][Next]_vars

\* the reader over the Segment Def records of every attribute byte
InitAttr ==
  /\ stream \in AttrStreams
  /\ pos = 0
  /\ info = OmfInfo_new
  /\ records = <<>>
  /\ status = "running"
  /\ overflow_checks \in BOOLEAN
  /\ last = NoCall

SpecAttr == InitAttr /\ [][Next]_vars

\* ------------------------------------------------------------------ claims
IsPrefix(a, b) == Len(a) <= Len(b) /\ SubSeq(b, 1, Len(a)) = a

Lookups == {"name", "segment", "group"}

\* the table a lookup reads
TableOf(fn, inf) ==
  CASE fn = "name" -> inf.names
    [] fn = "segment" -> inf.segments
    [] fn = "group" -> inf.groups

\* the tag byte the next request will read, -1 at the end of the stream
NextTag == IF pos < Len(stream) THEN stream[pos + 1] ELSE -1

LastRecord == records[Len(records)]

\* C1: the three tables only grow, and only through their record kind: a
\* decoded List of Names with k names adds k names and nothing else, a
\* Segment Def one segment and nothing else, a Group Def one group and
\* nothing else; every other tag, and every lookup or rendering, leaves the
\* three tables as they were.
C1_Step ==
  /\ IsPrefix(info.names, info'.names)
  /\ IsPrefix(info.segments, info'.segments)
  /\ IsPrefix(info.groups, info'.groups)
  /\ last'.op # "next" => info' = info
  /\ NextTag # TAG_LNAMES => info'.names = info.names
  /\ NextTag # TAG_SEGDEF => info'.segments = info.segments
  /\ NextTag # TAG_GRPDEF => info'.groups = info.groups
  /\ (last'.op = "next" /\ last'.res = "Some" /\ NextTag = TAG_LNAMES) =>
       Len(info'.names) =
         Len(info.names) + Len(records'[Len(records')].data.names)
  /\ (last'.op = "next" /\ last'.res = "Some" /\ NextTag = TAG_SEGDEF) =>
       Len(info'.segments) = Len(info.segments) + 1
  /\ (last'.op = "next" /\ last'.res = "Some" /\ NextTag = TAG_GRPDEF) =>
       Len(info'.groups) = Len(info.groups) + 1

C1_TablesGrowByKind == [][C1_Step]_vars

\* Two List of Names records, a Segment Def and a Group Def were decoded.
C1_Witness ==
  /\ Len(records) = 3
  /\ records[1].data.kind = "LNames"
  /\ records[2].data.kind = "LNames"
  /\ records[3].data.kind \in {"SegDef", "GrpDef"}
  /\ Len(info.names) = 4
  /\ Len(info.segments) + Len(info.groups) = 1

\* C2: a lookup of index 0 returns an index error value, whatever the
\* tables hold: it returns no entry and does not panic.
C2_IndexZeroIsError ==
  (last.op \in Lookups /\ last.index = 0) =>
    (last.res = "Err" /\ last.err = "value")

\* C3: a lookup of an index idx >= 1 returns the entry at position idx - 1
\* when idx is at most the table's length, returns an index error when idx
\* is larger, and leaves the tables as they were.
C3_Step ==
  (last'.op \in Lookups /\ last'.index >= 1) =>
    /\ info' = info
    /\ last'.index <= Len(TableOf(last'.op, info)) =>
         /\ last'.res = "Ok"
         /\ TableOf(last'.op, last'.val) =
              <<TableOf(last'.op, info)[last'.index]>>
    /\ last'.index > Len(TableOf(last'.op, info)) =>
         /\ last'.res = "Err"
         /\ last'.err = "value"
         /\ last'.val = NoVal

C3_LookupByPosition == [][C3_Step]_vars

\* The second of two names was looked up, and found.
C3_Witness ==
  /\ last.op = "name"
  /\ last.index = 2
  /\ last.res = "Ok"
  /\ last.val.names = <<DATA>>
  /\ Len(info.names) >= 2

\* the entries the first j yielded records have appended to a table
RECURSIVE NamesUpTo(_, _)
NamesUpTo(recs, j) ==
  IF j = 0 THEN 0
  ELSE NamesUpTo(recs, j - 1)
       + (IF recs[j].data.kind = "LNames" THEN Len(recs[j].data.names) ELSE 0)

KindUpTo(recs, j, kind) == Cardinality({i \in 1..j : recs[i].data.kind = kind})

AppendedUpTo(fn, recs, j) ==
  CASE fn = "name" -> NamesUpTo(recs, j)
    [] fn = "segment" -> KindUpTo(recs, j, "SegDef")
    [] fn = "group" -> KindUpTo(recs, j, "GrpDef")

\* C4 as stated: whenever a record is rendered, also after later records
\* were pulled, no lookup of an index that refers to an entry appended by a
\* later record succeeds.
C4_DecodeTimeState ==
  last.op = "render" =>
    \A k \in 1..Len(last.calls) :
      last.calls[k].res = "Ok" =>
        last.calls[k].index <= AppendedUpTo(last.calls[k].fn, records, last.rec)

\* C4 amended: a record resolves its indices against the tables as they are
\* when it is rendered: a lookup succeeds only for an index within the table
\* at that moment, so a record rendered before any later record was pulled
\* never resolves an entry a later record appends.
C4_RenderTimeState ==
  last.op = "render" =>
    \A k \in 1..Len(last.calls) :
      last.calls[k].res = "Ok" =>
        /\ last.calls[k].index <= Len(TableOf(last.calls[k].fn, info))
        /\ last.rec = Len(records) =>
             last.calls[k].index
               <= AppendedUpTo(last.calls[k].fn, records, last.rec)

\* A Segment Def was rendered before the List of Names that follows it in
\* the stream was pulled: its name index 1 did not resolve.
C4_Witness ==
  /\ last.op = "render"
  /\ last.rec = Len(records)
  /\ LastRecord.data.kind = "SegDef"
  /\ NextTag = TAG_LNAMES
  /\ last.calls = <<[fn |-> "name", index |-> 1, res |-> "Err"]>>

\* C5: a yielded record has consumed, after its tag and length field,
\* exactly the declared length: the next tag is read 3 + length bytes after
\* the record's start.
C5_ConsumesDeclaredLength ==
  (last.op = "next" /\ last.res = "Some") =>
    pos = last.start + 3 + LastRecord.record_length

\* the declared length of the record that starts at offset p
DeclaredLength(p) == stream[p + 2] + 256 * stream[p + 3]

\* the request read an unrecognized tag and a length the stream has bytes for
UnknownRequest(minLen) ==
  /\ last.op = "next"
  /\ last.start + 3 <= Len(stream)
  /\ stream[last.start + 1] \notin KnownTags
  /\ DeclaredLength(last.start) >= minLen
  /\ last.start + 3 + DeclaredLength(last.start) <= Len(stream)

\* the record yielded is the opaque payload of length - 1 bytes that follows
\* the length field, and the checksum byte after it
OpaqueRecord ==
  /\ last.res = "Some"
  /\ pos = last.start + 3 + DeclaredLength(last.start)
  /\ LastRecord.record_type = stream[last.start + 1]
  /\ LastRecord.record_length = DeclaredLength(last.start)
  /\ LastRecord.data =
       [kind |-> "Unknown",
        data |-> SubSeq(stream, last.start + 4,
                        last.start + 2 + DeclaredLength(last.start))]
  /\ LastRecord.checksum = stream[pos]

\* C6 as stated: an unrecognized tag with any declared length 0..65535 the
\* stream has the bytes for is decoded as an Unknown record of length - 1
\* payload bytes and a checksum byte.
C6_UnknownAnyLength == UnknownRequest(0) => OpaqueRecord

\* C6 amended: the same for every declared length in 1..65535.
C6_UnknownPositiveLength == UnknownRequest(1) => OpaqueRecord

\* An unrecognized tag with declared length 3 was decoded after another
\* record.
C6_Witness ==
  /\ UnknownRequest(1)
  /\ last.start > 0
  /\ DeclaredLength(last.start) = 3
  /\ LastRecord.data.kind = "Unknown"
  /\ Len(LastRecord.data.data) = 2

\* C7: a request ends the sequence quietly exactly when no tag byte is left,
\* and then changes nothing, so every later request ends it again; a stream
\* that ends after a tag byte was read, inside the length field, the payload
\* or before the checksum, makes the request fail: it yields no record and
\* does not end the sequence quietly.  For a yielded record that is checked
\* on every cut of the stream inside the record as well.
C7_Step ==
  /\ pos = Len(stream) => pos' = pos
  /\ last'.op = "next" =>
    /\ last'.res = "None" <=> pos = Len(stream)
    /\ last'.res = "None" =>
         (pos' = pos /\ records' = records /\ info' = info
          /\ status' = "running")
    /\ last'.err = "io" =>
         (last'.res = "Panic" /\ records' = records /\ status' = "panicked")
    /\ last'.res = "Some" =>
         \A k \in (pos + 1)..(pos' - 1) :
           /\ get_next_record(SubSeq(stream, 1, k), pos, info,
                              overflow_checks).res = "Err"
           /\ get_next_record(SubSeq(stream, 1, k), pos, info,
                              overflow_checks).err = "io"

C7_EndOnlyAtRecordBoundary == [][C7_Step]_vars

\* After a yielded record the stream ended inside the next record's length
\* field, and the request failed.
C7_Witness ==
  /\ last.op = "next"
  /\ last.res = "Panic"
  /\ last.err = "io"
  /\ Len(records) = 1
  /\ Len(stream) = last.start + 2

\* C8: a request that fails yields no record and leaves the names, segments
\* and groups tables as they were before it.
C8_Step ==
  (last'.op = "next" /\ last'.res = "Panic") =>
    (records' = records /\ info' = info)

C8_FailedRecordLeavesTables == [][C8_Step]_vars

\* C9: rendering a Public Names Def calls the group lookup and the segment
\* lookup with a non-zero index only.
C9_PubDefNeverResolvesZero ==
  (last.op = "render" /\ records[last.rec].data.kind = "PubDef") =>
    \A k \in 1..Len(last.calls) :
      last.calls[k].fn \in {"group", "segment"} => last.calls[k].index # 0

\* the names of the List of Names records among recs, in order
RECURSIVE AllNames(_, _)
AllNames(recs, j) ==
  IF j = 0 THEN <<>>
  ELSE AllNames(recs, j - 1)
       \o (IF recs[j].data.kind = "LNames" THEN recs[j].data.names ELSE <<>>)

\* the first line a rendered Segment Def writes after the record header
SegmentLine == last'.lines[2]

\* C10: name index i resolves to the i-th name parsed from List of Names
\* records, in stream order and, within a record, in parse order; no step
\* changes what a valid index resolves to; a rendered Segment Def shows the
\* name its segment name index stands for.
C10_Step ==
  /\ IsPrefix(info.names, info'.names)
  /\ IsPrefix(AllNames(records', Len(records')), info'.names)
  /\ status' = "running" => info'.names = AllNames(records', Len(records'))
  /\ (last'.op = "name" /\ last'.res = "Ok") =>
       last'.val.names =
         <<AllNames(records', Len(records'))[last'.index]>>
  /\ (last'.op = "render" /\ records'[last'.rec].data.kind = "SegDef"
      /\ Len(last'.lines) >= 2) =>
       /\ SegmentLine.n = records'[last'.rec].data.segment_name_index
       /\ SegmentLine.s = AllNames(records', Len(records'))[SegmentLine.n]

C10_NameIndexIsParseOrder == [][C10_Step]_vars

\* After List of Names "CODE", "DATA" and a second List of Names record, a
\* Segment Def with segment name index 1 was rendered with the name "CODE".
C10_Witness ==
  /\ Len(records) = 3
  /\ records[1].data = [kind |-> "LNames", names |-> <<CODE, DATA>>]
  /\ records[2].data.kind = "LNames"
  /\ records[3].data.kind = "SegDef"
  /\ records[3].data.segment_name_index = 1
  /\ Len(info.names) > 2
  /\ last.op = "render"
  /\ last.rec = 3
  /\ last.res = "Ok"
  /\ last.lines[2].s = CODE

\* the bytes an arm reads before it subtracts from the declared length
FixedBytes ==
  CASE stream[last.start + 1] = TAG_COMENT -> 2
    [] stream[last.start + 1] = TAG_LEDATA -> 3
    [] stream[last.start + 1] = TAG_GRPDEF -> 1
    [] stream[last.start + 1] = TAG_PUBDEF ->
         IF last.start + 5 <= Len(stream) /\ stream[last.start + 5] = 0
         THEN 4 ELSE 2
    [] OTHER -> 0

\* the request read a tag whose arm subtracts from the declared length, a
\* declared length below the arm's fixed bytes plus the checksum, and the
\* arm's fixed bytes
ShortRequest ==
  /\ last.op = "next"
  /\ last.start + 3 <= Len(stream)
  /\ stream[last.start + 1] \notin {TAG_THEADR, TAG_MODEND, TAG_SEGDEF}
  /\ last.start + 3 + FixedBytes <= Len(stream)
  /\ DeclaredLength(last.start) < FixedBytes + 1

\* C12: for a record whose declared length is smaller than its tag's fixed
\* overhead the request ends in an error with nothing read after the arm's
\* fixed bytes: no payload of a wrapped-around size, no entry of a loop.
C12_BudgetNeverWraps ==
  ShortRequest =>
    /\ last.res = "Panic"
    /\ pos = last.start + 3 + FixedBytes

\* the request read a Segment Def tag, a length and an attribute byte
SegDefRequest ==
  /\ last.op = "next"
  /\ last.start + 4 <= Len(stream)
  /\ stream[last.start + 1] = TAG_SEGDEF

\* the attribute byte the request read, its top 3 bits and the 2 bits the
\* combination is taken from
AttrByte == stream[last.start + 4]
AlignmentField == AttrByte \div 32
CombinationField == (AttrByte \div 4) % 4

\* the discriminants of enum SegmentAlignment and enum SegmentCombination
AlignmentValues == 0..5
CombinationValues == {0, 2, 4, 5, 6, 7}

\* C11: a Segment Def whose attribute byte carries an alignment or a
\* combination outside the enumeration fails with a value error: no record
\* is yielded, no segment is appended, and nothing after the attribute byte
\* is read.
C11_Step ==
  (last'.op = "next" /\ NextTag = TAG_SEGDEF /\ pos + 4 <= Len(stream)
   /\ (stream[pos + 4] \div 32 \notin AlignmentValues
       \/ (stream[pos + 4] \div 4) % 4 \notin CombinationValues)) =>
    /\ last'.res = "Panic"
    /\ last'.err = "value"
    /\ status' = "panicked"
    /\ records' = records
    /\ info' = info
    /\ pos' = pos + 4

C11_BadAttributeIsValueError == [][C11_Step]_vars

\* After a List of Names was decoded, a Segment Def with alignment 6 or 7
\* failed with a value error right after its attribute byte, with the rest
\* of the record unread.
C11_Witness ==
  /\ SegDefRequest
  /\ AlignmentField \notin AlignmentValues
  /\ Len(records) = 1
  /\ info.segments = <<>>
  /\ last.res = "Panic"
  /\ last.err = "value"
  /\ pos = last.start + 4
  /\ pos < Len(stream)

\* the combinations held by the Segment Def records yielded and by the
\* segments table
CombinationsHeld ==
  {records[j].data.segment_attributes.combination :
     j \in {i \in 1..Len(records) : records[i].data.kind = "SegDef"}}
  \cup {info.segments[k].segment_attributes.combination :
          k \in 1..Len(info.segments)}

\* C13: whatever the attribute byte, a decoded Segment Def and the segments
\* table entry appended for it hold Private or Public only, Private for the
\* 2-bit field (attr >> 2) & 3 = 0 and Public for 2; with field values 1 and
\* 3 the request fails with a value error.
C13_CombinationIsTwoBitField ==
  /\ CombinationsHeld \subseteq {"Private", "Public"}
  /\ (SegDefRequest /\ last.res = "Some") =>
       /\ CombinationField \in {0, 2}
       /\ LastRecord.data.segment_attributes.combination =
            (IF CombinationField = 0 THEN "Private" ELSE "Public")
       /\ Last(info.segments).segment_attributes.combination =
            (IF CombinationField = 0 THEN "Private" ELSE "Public")
  /\ (SegDefRequest /\ AlignmentField \in AlignmentValues
      /\ CombinationField \in {1, 3}) =>
       (last.res = "Panic" /\ last.err = "value")

\* A Segment Def whose attribute byte has 6 (Common) in bits 4..2 was decoded
\* and holds Public, the value of bits 3..2.
C13_Witness ==
  /\ SegDefRequest
  /\ last.res = "Some"
  /\ (AttrByte \div 4) % 8 = 6
  /\ LastRecord.data.kind = "SegDef"
  /\ LastRecord.data.segment_attributes.combination = "Public"
  /\ Last(info.segments).segment_attributes.combination = "Public"

====
